---- MODULE Spec2Model ----
(***************************************************************************)
(* Model of deepseek_summarizer.py: a batch job that loads one day's       *)
(* articles, asks a chat-completion endpoint for a summary and writes the  *)
(* answer to dailybrief/<YYYYMMDD>.md.                                     *)
(*                                                                         *)
(* An invocation is a process with its own environment (os.environ is per  *)
(* process); invocations share the file system and the wall clock.  Every  *)
(* system call of the write stage (exists, makedirs, open, write) is a     *)
(* step of its own, so that two invocations can interleave as processes    *)
(* do; the outcome of a system call that the operating system may refuse   *)
(* is a nondeterministic choice.                                           *)
(***************************************************************************)
EXTENDS Integers, Sequences, FiniteSets, TLC

VARIABLES
    clock,        \* the US/Eastern wall-clock date, in days after BaseDate
    dirs,         \* the directories that exist
    articleFiles, \* path -> content of the article files (written elsewhere)
    files,        \* path -> bytes of the brief files that exist
    run,          \* process -> the invocation's position and local variables
    runs,         \* process -> number of invocations started so far
    lastWriter    \* history: path -> the process whose write(2) came last
\* run[p].replaced is history too: the open found a file whose bytes were no
\* prefix of the bytes this run is about to write

vars == <<clock, dirs, articleFiles, files, run, runs, lastWriter>>

----------------------------------------------------------------------------
(* Bounds *)

MaxLen == 1      \* longest completion text, in characters
MaxRuns == 2     \* invocations per process
MaxTicks == 1    \* midnights the clock passes

Procs == {1, 2}

----------------------------------------------------------------------------
(* Python values *)

None == [py |-> "None"]
PyStr(s) == [py |-> "str", v |-> s]
PyList(s) == [py |-> "list", v |-> s]
PyInt(n) == [py |-> "int", v |-> n]

\* bool(x) of a str, list, int or None
Truthy(x) ==
    CASE x.py = "None" -> FALSE
      [] x.py = "int" -> x.v # 0
      [] OTHER -> Len(x.v) > 0

\* len(x): defined on str and list, a TypeError on int and None
HasLen(x) == x.py \in {"str", "list"}

----------------------------------------------------------------------------
(* Constants of the program *)

ARTICLES_DIR == "articles"
DAILYBRIEF_DIR == "dailybrief"
DEFAULT_MODEL == "deepseek-chat"
DEFAULT_PROMPT == "DEFAULT_PROMPT"

KEY_VAR == "DEEPSEEK_API_KEY"
EnvNames == {"DEEPSEEK_API_KEY", "SUMMARY_MODEL", "DEEPSEEK_MODEL"}

\* os.environ.get(name, default); an unset variable is None in env
EnvGet(env, name, default) == IF env[name] = None THEN default ELSE env[name]

----------------------------------------------------------------------------
(* Dates: datetime.now(eastern).strftime("%Y%m%d") *)

BaseDate == [y |-> 2024, m |-> 12, d |-> 31]

IsLeap(y) == (y % 4 = 0 /\ y % 100 # 0) \/ y % 400 = 0

DaysIn(y, m) ==
    CASE m = 2 -> IF IsLeap(y) THEN 29 ELSE 28
      [] m \in {4, 6, 9, 11} -> 30
      [] OTHER -> 31

NextDay(t) ==
    IF t.d < DaysIn(t.y, t.m) THEN [t EXCEPT !.d = t.d + 1]
    ELSE IF t.m < 12 THEN [t EXCEPT !.m = t.m + 1, !.d = 1]
    ELSE [y |-> t.y + 1, m |-> 1, d |-> 1]

RECURSIVE AddDays(_, _)
AddDays(t, n) == IF n = 0 THEN t ELSE AddDays(NextDay(t), n - 1)

Digit(n) == <<"0", "1", "2", "3", "4", "5", "6", "7", "8", "9">>[n + 1]
Pad2(n) == Digit((n \div 10) % 10) \o Digit(n % 10)
Pad4(n) == Pad2(n \div 100) \o Pad2(n % 100)

\* get_eastern_time().strftime("%Y%m%d") when the clock shows day c
strftime(c) ==
    LET t == AddDays(BaseDate, c) IN Pad4(t.y) \o Pad2(t.m) \o Pad2(t.d)

ArticlePath(date) == ARTICLES_DIR \o "/" \o date \o ".json"
BriefPath(date) == DAILYBRIEF_DIR \o "/" \o date \o ".md"

----------------------------------------------------------------------------
(* Text and its UTF-8 encoding (open(..., "w", encoding="utf-8")) *)

Chars == {"a", "U+00E9", "U+D800"}     \* ASCII, two-byte, lone surrogate

\* a writer that encodes as Latin-1 instead of UTF-8
EncodeChar_Latin1(c) ==
    CASE c = "a" -> <<97>>
      [] c = "U+00E9" -> <<233>>
      [] OTHER -> <<>>

EncodeChar(c) ==
    CASE c = "a" -> <<97>>
      [] c = "U+00E9" -> <<195, 169>>
      [] OTHER -> <<>>

\* a lone surrogate makes str.encode raise UnicodeEncodeError
Encodable(text) == \A i \in 1..Len(text) : text[i] # "U+D800"

RECURSIVE Encode(_)
Encode(text) ==
    IF text = <<>> THEN <<>> ELSE EncodeChar(Head(text)) \o Encode(Tail(text))

RECURSIVE Decode(_)
Decode(bytes) ==
    IF bytes = <<>> THEN <<>>
    ELSE IF bytes[1] = 97 THEN <<"a">> \o Decode(Tail(bytes))
    ELSE IF Len(bytes) >= 2 /\ bytes[1] = 195 /\ bytes[2] = 169
         THEN <<"U+00E9">> \o Decode(Tail(Tail(bytes)))
    ELSE <<"U+FFFD">> \o Decode(Tail(bytes))

RECURSIVE SeqsUpTo(_, _)
SeqsUpTo(S, n) ==
    IF n = 0 THEN {<<>>}
    ELSE LET shorter == SeqsUpTo(S, n - 1)
         IN shorter \cup {Append(s, c) : s \in shorter, c \in S}

Texts == SeqsUpTo(Chars, MaxLen)

Take(s, n) == SubSeq(s, 1, n)
IsPrefix(s, t) == Len(s) <= Len(t) /\ Take(t, Len(s)) = s

\* a writer that opens with O_APPEND (mode "a")
WriteAt0_Append(old, data) == old \o data

\* the file after write(2) of data at offset 0 (mode "w" keeps no O_APPEND):
\* data replaces the first Len(data) bytes, anything beyond stays
WriteAt0(old, data) ==
    IF Len(data) >= Len(old) THEN data
    ELSE data \o SubSeq(old, Len(data) + 1, Len(old))

\* an open that does not truncate (mode "r+")
OpenTruncate_Keep(old) == old

\* the file after open(path, "w"): created empty or truncated to empty
OpenTruncate(old) == <<>>

----------------------------------------------------------------------------
(* The stages, as the functions of the program *)

\* load_articles(date_str) with the clock at c and the article files afs
load_articles(date_str, c, afs) ==
    LET date == IF ~Truthy(date_str) THEN strftime(c) ELSE date_str.v
        path == ArticlePath(date)
    IN IF path \notin DOMAIN afs
       THEN [date |-> date, articles |-> None, error |-> "file_missing",
             read |-> FALSE]
       ELSE IF ~afs[path].json_ok \/ ~HasLen(afs[path].value)
       THEN [date |-> date, articles |-> None, error |-> "load_failed",
             read |-> TRUE]
       ELSE [date |-> date, articles |-> afs[path].value, error |-> "",
             read |-> TRUE]

\* generate_daily_brief: the credential after lines 156-157
ResolveKey(api_key, env) == IF api_key = None THEN env[KEY_VAR] ELSE api_key

\* a check that forgets the empty string (is None instead of not)
KeyMissing_UnsetOnly(api_key, env) == api_key = None /\ env[KEY_VAR] = None

\* generate_daily_brief: line 158, the run stops for want of a credential
KeyMissing(api_key, env) == api_key = None /\ ~Truthy(env[KEY_VAR])

\* a check that forgets the empty collection (is None instead of not)
NoArticles_IsNone(articles) == articles = None

\* an orchestrator that goes on whatever the loader returned
NoArticles_Never(articles) == FALSE

\* generate_daily_brief: line 163, the run stops after the load
NoArticles(articles) == ~Truthy(articles)

\* a check that forgets the empty text (is None instead of not)
NoSummary_IsNone(summary) == summary = None

\* generate_daily_brief: line 168, the run stops after the completion call
NoSummary(summary) == ~Truthy(summary)

\* main: the environment after lines 181-185
MainEnv(env, argv) ==
    LET e1 == IF Truthy(argv.model)
              THEN [env EXCEPT !["DEEPSEEK_MODEL"] = argv.model] ELSE env
    IN IF Truthy(argv.api_key)
       THEN [e1 EXCEPT ![KEY_VAR] = argv.api_key] ELSE e1

\* call_deepseek_api: lines 89-93, no call is made for want of a credential
ClientKeyMissing(api_key, env) == api_key = None /\ ~Truthy(env[KEY_VAR])

\* call_deepseek_api: the model of the request, line 111
RequestModel(env) == EnvGet(env, "SUMMARY_MODEL", PyStr(DEFAULT_MODEL))

\* call_deepseek_api: lines 96-116, the request sent
Request(api_key, prompt, articles, env) ==
    [py |-> "request", api_key |-> api_key, model |-> RequestModel(env),
     role |-> "user", prompt |-> prompt, articles |-> articles,
     stream |-> FALSE]

\* call_deepseek_api: lines 120-130, what is returned for a response
ExtractText(resp) ==
    IF resp.kind = "error" THEN [text |-> None, error |-> "api_failed"]
    ELSE IF Len(resp.choices) > 0
    THEN [text |-> resp.choices[1], error |-> ""]
    ELSE [text |-> None, error |-> "choices_missing"]

\* what the endpoint may answer: a failure, no choice, or one choice whose
\* message content is None or a text
Responses ==
    {[kind |-> "error", choices |-> <<>>], [kind |-> "ok", choices |-> <<>>]}
    \cup {[kind |-> "ok", choices |-> <<c>>] :
            c \in {None} \cup {PyStr(t) : t \in Texts}}

\* save_daily_brief: the date of the file written, lines 136-138
SaveDate(date_str, c) == IF ~Truthy(date_str) THEN strftime(c) ELSE date_str.v

----------------------------------------------------------------------------
(* Invocations *)

IdleRun ==
    [pc |-> "idle", entry |-> "",
     argv |-> [api_key |-> None, date |-> None, model |-> None],
     env |-> [n \in EnvNames |-> None],
     api_key |-> None, date_str |-> None, load_date |-> None,
     articles |-> None, request |-> None, summary |-> None,
     save_date |-> None, replaced |-> FALSE,
     did |-> {}, errors |-> {}, ret |-> FALSE, status |-> 0, raised |-> ""]

\* the environments an invocation may inherit
Envs ==
    {[n \in EnvNames |->
        CASE n = KEY_VAR -> k [] n = "SUMMARY_MODEL" -> m [] OTHER -> None] :
     k \in {None, PyStr(""), PyStr("sk-env")}, m \in {None, PyStr("env-model")}}

\* the command lines: [--api-key K] [--date D] [--model M]
MainArgs ==
    [api_key : {None, PyStr("sk-flag")},
     date : {None, PyStr(strftime(0))},
     model : {None, PyStr("flag-model")}]

\* the arguments of a direct call generate_daily_brief(api_key, date_str)
CallArgs ==
    [api_key : {None, PyStr(""), PyStr("sk-arg")},
     date : {PyStr(""), PyStr(strftime(0))},
     model : {None}]

\* the environments of the direct callers
CallEnvs == {e \in Envs : e["SUMMARY_MODEL"] = None}

DateKeys == {strftime(c) : c \in 0..MaxTicks}

\* an article file: invalid JSON, or the JSON value it holds
ArticleContents ==
    {[json_ok |-> FALSE, value |-> None],
     [json_ok |-> TRUE, value |-> PyList(<<>>)],
     [json_ok |-> TRUE, value |-> PyList(<<"article1", "article2">>)],
     [json_ok |-> TRUE, value |-> PyInt(7)]}

\* the article directory: empty, or one file of the same kind per date
ArticleStores ==
    {[k \in {} |-> None]}
    \cup {[k \in {ArticlePath(d) : d \in DateKeys} |-> a] : a \in ArticleContents}

Set(p, r) == run' = [run EXCEPT ![p] = r]

Put(f, path, v) ==
    [q \in DOMAIN f \cup {path} |-> IF q = path THEN v ELSE f[q]]

\* generate_daily_brief returns ok; under main, lines 189-194 log the outcome
\* and the process ends with status 0
Return(r, ok) ==
    IF r.entry = "main"
    THEN [r EXCEPT !.ret = ok, !.pc = "exited", !.status = 0,
                   !.errors = IF ok THEN @ ELSE @ \cup {"brief_failed"}]
    ELSE [r EXCEPT !.ret = ok, !.pc = "returned"]

\* an exception leaves main: traceback, exit status 1
Uncaught(r, exc) == [r EXCEPT !.pc = "exited", !.status = 1, !.raised = exc]

Done(p) == run[p].pc \in {"exited", "returned"}

----------------------------------------------------------------------------
(* Steps of an invocation *)

\* python deepseek_summarizer.py ...: main up to line 185
StartMain(p, Args, Inherited, limit) ==
    /\ run[p].pc = "idle"
    /\ runs[p] < limit
    /\ \E a \in Args, e \in Inherited :
          Set(p, [IdleRun EXCEPT !.pc = "main_ensure_dir", !.entry = "main",
                                 !.argv = a, !.env = MainEnv(e, a),
                                 !.date_str = a.date])
    /\ runs' = [runs EXCEPT ![p] = @ + 1]
    /\ UNCHANGED <<clock, dirs, articleFiles, files, lastWriter>>

\* a caller's generate_daily_brief(api_key, date_str)
CallGenerate(p, Args, Inherited, limit) ==
    /\ run[p].pc = "idle"
    /\ runs[p] < limit
    /\ \E a \in Args, e \in Inherited :
          Set(p, [IdleRun EXCEPT !.pc = "gen_cred", !.entry = "call",
                                 !.argv = a, !.env = e,
                                 !.api_key = a.api_key, !.date_str = a.date])
    /\ runs' = [runs EXCEPT ![p] = @ + 1]
    /\ UNCHANGED <<clock, dirs, articleFiles, files, lastWriter>>

\* main, line 187: ensure_dir_exists, the os.path.exists test
MainEnsureDir(p) ==
    /\ run[p].pc = "main_ensure_dir"
    /\ Set(p, [run[p] EXCEPT !.pc = IF DAILYBRIEF_DIR \in dirs
                                    THEN "gen_cred" ELSE "main_makedirs"])
    /\ UNCHANGED <<clock, dirs, articleFiles, files, runs, lastWriter>>

\* main, line 187: ensure_dir_exists, os.makedirs; nothing catches its error
MainMakedirs(p) ==
    /\ run[p].pc = "main_makedirs"
    /\ IF DAILYBRIEF_DIR \in dirs
       THEN /\ Set(p, Uncaught(run[p], "FileExistsError"))
            /\ UNCHANGED dirs
       ELSE \E ok \in BOOLEAN :
              IF ok
              THEN /\ dirs' = dirs \cup {DAILYBRIEF_DIR}
                   /\ Set(p, [run[p] EXCEPT !.pc = "gen_cred",
                                            !.did = @ \cup {"mkdir"}])
              ELSE /\ Set(p, Uncaught(run[p], "OSError"))
                   /\ UNCHANGED dirs
    /\ UNCHANGED <<clock, articleFiles, files, runs, lastWriter>>

\* generate_daily_brief, lines 156-160
GenCred(p) ==
    /\ run[p].pc = "gen_cred"
    /\ LET r == run[p] IN
       IF KeyMissing(r.api_key, r.env)
       THEN Set(p, Return([r EXCEPT !.api_key = ResolveKey(r.api_key, r.env),
                                    !.errors = @ \cup {"need_key"}], FALSE))
       ELSE Set(p, [r EXCEPT !.api_key = ResolveKey(r.api_key, r.env),
                             !.pc = "gen_load"])
    /\ UNCHANGED <<clock, dirs, articleFiles, files, runs, lastWriter>>

\* generate_daily_brief, lines 162-164
LoadArticles(p) ==
    /\ run[p].pc = "gen_load"
    /\ LET r == run[p]
           l == load_articles(r.date_str, clock, articleFiles)
           r1 == [r EXCEPT !.load_date = PyStr(l.date),
                           !.articles = l.articles,
                           !.did = IF l.read THEN @ \cup {"read_articles"} ELSE @,
                           !.errors = IF l.error = "" THEN @ ELSE @ \cup {l.error}]
       IN IF NoArticles(l.articles)
          THEN Set(p, Return(r1, FALSE))
          ELSE Set(p, [r1 EXCEPT !.pc = "gen_call"])
    /\ UNCHANGED <<clock, dirs, articleFiles, files, runs, lastWriter>>

\* call_deepseek_api, lines 87-116: the request leaves
CallApi(p) ==
    /\ run[p].pc = "gen_call"
    /\ LET r == run[p] IN
       IF ClientKeyMissing(r.api_key, r.env)
       THEN Set(p, Return([r EXCEPT !.errors = @ \cup {"env_key_unset"}], FALSE))
       ELSE Set(p, [r EXCEPT !.pc = "api_wait",
                             !.did = @ \cup {"api_call"},
                             !.request = Request(ResolveKey(r.api_key, r.env),
                                                 DEFAULT_PROMPT, r.articles, r.env)])
    /\ UNCHANGED <<clock, dirs, articleFiles, files, runs, lastWriter>>

\* call_deepseek_api, lines 120-130, and generate_daily_brief, lines 168-169
ApiReturn(p) ==
    /\ run[p].pc = "api_wait"
    /\ \E resp \in Responses :
          LET r == run[p]
              x == ExtractText(resp)
              r1 == [r EXCEPT !.summary = x.text,
                              !.errors = IF x.error = "" THEN @ ELSE @ \cup {x.error}]
          IN IF NoSummary(x.text)
             THEN Set(p, Return(r1, FALSE))
             ELSE Set(p, [r1 EXCEPT !.pc = "save_begin"])
    /\ UNCHANGED <<clock, dirs, articleFiles, files, runs, lastWriter>>

\* save_daily_brief, lines 136-140: the date, and the os.path.exists test
SaveBegin(p) ==
    /\ run[p].pc = "save_begin"
    /\ Set(p, [run[p] EXCEPT !.save_date = PyStr(SaveDate(run[p].date_str, clock)),
                             !.pc = IF DAILYBRIEF_DIR \in dirs
                                    THEN "save_open" ELSE "save_makedirs"])
    /\ UNCHANGED <<clock, dirs, articleFiles, files, runs, lastWriter>>

\* save_daily_brief, line 140: os.makedirs, its error caught at line 148
SaveMakedirs(p) ==
    /\ run[p].pc = "save_makedirs"
    /\ IF DAILYBRIEF_DIR \in dirs
       THEN /\ Set(p, Return([run[p] EXCEPT !.errors = @ \cup {"save_failed"}], FALSE))
            /\ UNCHANGED dirs
       ELSE \E ok \in BOOLEAN :
              IF ok
              THEN /\ dirs' = dirs \cup {DAILYBRIEF_DIR}
                   /\ Set(p, [run[p] EXCEPT !.pc = "save_open",
                                            !.did = @ \cup {"mkdir"}])
              ELSE /\ Set(p, Return([run[p] EXCEPT
                                       !.errors = @ \cup {"save_failed"},
                                       !.did = @ \cup {"io_fault"}], FALSE))
                   /\ UNCHANGED dirs
    /\ UNCHANGED <<clock, articleFiles, files, runs, lastWriter>>

\* save_daily_brief, line 143: open(filepath, "w")
SaveOpen(p) ==
    /\ run[p].pc = "save_open"
    /\ LET r == run[p]
           path == BriefPath(r.save_date.v)
       IN \E ok \in BOOLEAN :
            IF ok
            THEN /\ files' = Put(files, path,
                                 OpenTruncate(IF path \in DOMAIN files
                                              THEN files[path] ELSE <<>>))
                 /\ Set(p, [r EXCEPT !.pc = "save_write",
                                     !.did = @ \cup {"open_brief"},
                                     !.replaced =
                                         /\ path \in DOMAIN files
                                         /\ ~IsPrefix(files[path], Encode(r.summary.v))])
            ELSE /\ Set(p, Return([r EXCEPT !.errors = @ \cup {"save_failed"},
                                            !.did = @ \cup {"io_fault"}], FALSE))
                 /\ UNCHANGED files
    /\ UNCHANGED <<clock, dirs, articleFiles, runs, lastWriter>>

\* save_daily_brief, lines 144-150: f.write(content) and the close
SaveWrite(p) ==
    /\ run[p].pc = "save_write"
    /\ LET r == run[p]
           path == BriefPath(r.save_date.v)
           data == Encode(r.summary.v)
       IN IF ~Encodable(r.summary.v)
          THEN /\ Set(p, Return([r EXCEPT !.errors = @ \cup {"save_failed"}], FALSE))
               /\ UNCHANGED <<files, lastWriter>>
          ELSE \E n \in 0..Len(data) :
                 /\ files' = Put(files, path, WriteAt0(files[path], Take(data, n)))
                 /\ lastWriter' = IF n > 0 THEN Put(lastWriter, path, p)
                                  ELSE lastWriter
                 /\ IF n = Len(data)
                    THEN Set(p, Return([r EXCEPT !.did = @ \cup {"write_brief"}], TRUE))
                    ELSE Set(p, Return([r EXCEPT !.errors = @ \cup {"save_failed"},
                                                 !.did = @ \cup {"io_fault"}], FALSE))
    /\ UNCHANGED <<clock, dirs, articleFiles, runs>>

\* the process is gone, or the caller has dropped the result
Exit(p) ==
    /\ Done(p)
    /\ Set(p, IdleRun)
    /\ UNCHANGED <<clock, dirs, articleFiles, files, runs, lastWriter>>

\* midnight in US/Eastern
Tick ==
    /\ clock < MaxTicks
    /\ clock' = clock + 1
    /\ UNCHANGED <<dirs, articleFiles, files, run, runs, lastWriter>>

Pipeline(p) ==
    \/ MainEnsureDir(p) \/ MainMakedirs(p) \/ GenCred(p) \/ LoadArticles(p)
    \/ CallApi(p) \/ ApiReturn(p) \/ SaveBegin(p) \/ SaveMakedirs(p)
    \/ SaveOpen(p) \/ SaveWrite(p)

----------------------------------------------------------------------------
(* Spec: invocations one after another *)

Init ==
    /\ clock = 0
    /\ dirs \in {{ARTICLES_DIR}, {ARTICLES_DIR, DAILYBRIEF_DIR}}
    /\ articleFiles \in ArticleStores
    /\ files = [q \in {} |-> <<>>]
    /\ run = [p \in Procs |-> IdleRun]
    /\ runs = [p \in Procs |-> 0]
    /\ lastWriter = [q \in {} |-> 0]

Next ==
    \/ Tick
    \/ StartMain(1, MainArgs, Envs, MaxRuns)
    \/ CallGenerate(1, CallArgs, CallEnvs, MaxRuns)
    \/ Pipeline(1)
    \/ Exit(1)

Spec == Init /\ [][Next]_vars

----------------------------------------------------------------------------
(* SpecRace: two command-line invocations for the same date at once *)

RaceArgs == {[api_key |-> None, date |-> PyStr(strftime(0)), model |-> None]}
RaceEnvs == {e \in Envs : Truthy(e[KEY_VAR]) /\ e["SUMMARY_MODEL"] = None}
RaceCallArgs ==
    {[api_key |-> PyStr("sk-arg"), date |-> PyStr(strftime(0)), model |-> None]}
RaceCallEnvs == {e \in Envs : \A n \in EnvNames : e[n] = None}

InitRace ==
    /\ Init
    /\ articleFiles \in {s \in ArticleStores :
                           \A q \in DOMAIN s : Truthy(s[q].value)}
    /\ DOMAIN articleFiles # {}

NextRace ==
    \E p \in Procs :
        \/ StartMain(p, RaceArgs, RaceEnvs, 1)
        \/ CallGenerate(p, RaceCallArgs, RaceCallEnvs, 1)
        \/ Pipeline(p)

SpecRace == InitRace /\ [][NextRace]_vars

----------------------------------------------------------------------------
(* Properties *)

SavePath(p) == BriefPath(run[p].save_date.v)
Opened(p) == "open_brief" \in run[p].did
Data(p) == Encode(run[p].summary.v)
NoCredential(r) == r.argv.api_key = None /\ ~Truthy(r.env[KEY_VAR])
BeforeCredential == {"idle", "main_ensure_dir", "main_makedirs", "gen_cred"}

\* C1: with no api_key argument and DEEPSEEK_API_KEY unset or empty, the run
\* returns False and never calls the endpoint, reads the article file or
\* opens a brief file.
C1_NoCredentialNoEffects ==
    \A p \in Procs :
        LET r == run[p] IN
        NoCredential(r) =>
            /\ r.did \cap {"read_articles", "api_call", "open_brief", "write_brief"} = {}
            /\ r.request = None
            /\ (r.pc \notin BeforeCredential /\ r.raised = "")
                   => (Done(p) /\ r.ret = FALSE)

C1_Witness ==
    \E p \in Procs :
        /\ Done(p) /\ NoCredential(run[p]) /\ run[p].raised = ""
        /\ run[p].ret = FALSE /\ "need_key" \in run[p].errors

\* C2 as claimed: whatever text the first choice holds, the empty one
\* included, the run succeeds and the brief file holds exactly that text.
C2_AnyTextWrittenVerbatim ==
    \A p \in Procs :
        (Done(p) /\ run[p].summary.py = "str" /\ "io_fault" \notin run[p].did)
            => /\ run[p].ret = TRUE
               /\ SavePath(p) \in DOMAIN files
               /\ Decode(files[SavePath(p)]) = run[p].summary.v

\* C2 amended: a non-empty text that UTF-8 can encode is, absent an I/O error
\* of the write stage, written as its UTF-8 bytes and nothing else, and the
\* run succeeds; an empty text makes the run fail without opening a file, a
\* text UTF-8 cannot encode makes it fail.
C2_EncodableTextWrittenVerbatim ==
    \A p \in Procs :
        (Done(p) /\ run[p].summary.py = "str" /\ "io_fault" \notin run[p].did)
            => IF Truthy(run[p].summary) /\ Encodable(run[p].summary.v)
               THEN /\ run[p].ret = TRUE
                    /\ SavePath(p) \in DOMAIN files
                    /\ files[SavePath(p)] = Data(p)
                    /\ Decode(files[SavePath(p)]) = run[p].summary.v
               ELSE /\ run[p].ret = FALSE
                    /\ ~Truthy(run[p].summary) => ~Opened(p)

C2_Witness ==
    \E p \in Procs :
        /\ Done(p) /\ run[p].ret = TRUE
        /\ run[p].summary = PyStr(<<"U+00E9">>)
        /\ files[SavePath(p)] = <<195, 169>>

\* C3 as claimed: after any sequence of runs the brief file of a key holds
\* the output of the latest run and nothing else.
C3_LatestOutputOnly ==
    \A p \in Procs :
        (Done(p) /\ Truthy(run[p].summary) /\ SavePath(p) \in DOMAIN files)
            => files[SavePath(p)] = Data(p)

\* C3 amended: after a run that reports success the brief file of its key
\* holds that run's output and nothing else, and once a run has opened the
\* file nothing an earlier run wrote is left in it: the file holds a prefix
\* of the opener's output.
C3_SuccessfulRunOverwrites ==
    \A p \in Procs :
        /\ (Done(p) /\ run[p].ret = TRUE)
               => (SavePath(p) \in DOMAIN files /\ files[SavePath(p)] = Data(p))
        /\ (Done(p) /\ Opened(p))
               => (SavePath(p) \in DOMAIN files
                   /\ IsPrefix(files[SavePath(p)], Data(p)))

C3_Witness ==
    \E p \in Procs :
        /\ Done(p) /\ run[p].ret = TRUE /\ runs[p] >= 2 /\ run[p].replaced
        /\ files[SavePath(p)] = Data(p)

Taxonomy ==
    {"need_key", "file_missing", "load_failed", "api_failed",
     "choices_missing", "save_failed"}

\* C4: every failure of the taxonomy makes generate_daily_brief return False
\* without raising, and stops the later stages: no completion call after a
\* failed load, no brief file opened after a failed completion.
C4_FailuresReturnFalseAndAbort ==
    \A p \in Procs :
        LET r == run[p] IN
        /\ r.errors \cap Taxonomy # {}
               => (Done(p) /\ r.ret = FALSE /\ r.raised = "")
        /\ "need_key" \in r.errors
               => r.did \cap {"read_articles", "api_call", "open_brief"} = {}
        /\ r.errors \cap {"file_missing", "load_failed"} # {}
               => r.did \cap {"api_call", "open_brief"} = {}
        /\ r.errors \cap {"api_failed", "choices_missing"} # {}
               => r.did \cap {"open_brief", "write_brief"} = {}

C4_Witness ==
    \E p \in Procs :
        /\ Done(p) /\ run[p].ret = FALSE
        /\ run[p].errors \cap {"api_failed", "choices_missing"} # {}
        /\ DOMAIN files # {}

\* C5 as claimed: the command line always ends with exit status 0 and no
\* uncaught exception.
C5_MainAlwaysExitsZero ==
    \A p \in Procs :
        run[p].pc = "exited" => (run[p].status = 0 /\ run[p].raised = "")

\* C6 as claimed: the request carries the --model override when one is given,
\* else the SUMMARY_MODEL of the environment, else deepseek-chat.
C6_RequestCarriesOverride ==
    \A p \in Procs :
        run[p].request # None =>
            run[p].request.model =
                IF Truthy(run[p].argv.model) THEN run[p].argv.model
                ELSE EnvGet(run[p].env, "SUMMARY_MODEL", PyStr(DEFAULT_MODEL))

BothWrote ==
    /\ \A p \in Procs : Done(p) /\ run[p].ret = TRUE
    /\ \A p, q \in Procs : SavePath(p) = SavePath(q)

\* C7 as claimed: when two runs for one key have both written, the file holds
\* exactly the output of the run that wrote last.
C7_LastWriterWins ==
    BothWrote =>
        \A p \in Procs :
            lastWriter[SavePath(p)] = p => files[SavePath(p)] = Data(p)

\* C7 amended: when two runs for one key have both written, each in one
\* write, the file begins with the whole output of the run that wrote last;
\* it is that output exactly, or that output followed by the bytes of the
\* other, longer output beyond its length.
C7_LastWriterPrefix ==
    BothWrote =>
        \A p, q \in Procs :
            (p # q /\ lastWriter[SavePath(p)] = p) =>
                LET f == files[SavePath(p)] IN
                /\ IsPrefix(Data(p), f)
                /\ \/ f = Data(p)
                   \/ /\ Len(f) = Len(Data(q))
                      /\ \A i \in (Len(Data(p)) + 1)..Len(f) : f[i] = Data(q)[i]

C7_Witness ==
    /\ BothWrote
    /\ \A p \in Procs : files[SavePath(p)] # Data(p)

\* C8 as claimed: a run whose write fails after the open leaves no file at
\* the brief path.
C8_FailedWriteLeavesNoFile ==
    \A p \in Procs :
        (Done(p) /\ Opened(p) /\ run[p].ret = FALSE)
            => SavePath(p) \notin DOMAIN files

FailedWriteLeavesPrefix ==
    \A p \in Procs :
        (Done(p) /\ Opened(p) /\ run[p].ret = FALSE)
            => /\ SavePath(p) \in DOMAIN files
               /\ "save_failed" \in run[p].errors
               /\ IF Encodable(run[p].summary.v)
                  THEN /\ IsPrefix(files[SavePath(p)], Data(p))
                       /\ files[SavePath(p)] # Data(p)
                  ELSE files[SavePath(p)] = <<>>

FileOnlyAfterGeneration ==
    \A path \in DOMAIN files' \ DOMAIN files :
        \E p \in Procs :
            /\ run[p].pc = "save_open"
            /\ "api_call" \in run[p].did
            /\ Truthy(run[p].summary)
            /\ BriefPath(run[p].save_date.v) = path

\* C8 amended: a brief file comes to exist only when a run that has received
\* a non-empty text from the completion call opens it; a run whose write
\* fails after the open reports failure and leaves a file at the brief path
\* that holds a proper prefix, possibly empty, of its encoded text.
C8_FailedWriteLeavesPrefix ==
    [] FailedWriteLeavesPrefix /\ [][FileOnlyAfterGeneration]_vars

C8_Witness ==
    \E p \in Procs :
        /\ Done(p) /\ Opened(p) /\ run[p].ret = FALSE /\ run[p].replaced
        /\ SavePath(p) \in DOMAIN files

\* C9 as claimed: the brief file written carries the date key of the article
\* file read, whatever the clock does in between.
C9_SameDateKey ==
    \A p \in Procs :
        Opened(p) => run[p].save_date = run[p].load_date

\* C10: an article file holding an empty collection is loaded without error,
\* and the run then returns False with no completion call and no brief file.
C10_EmptyCollectionAborts ==
    \A p \in Procs :
        LET r == run[p] IN
        r.articles = PyList(<<>>) =>
            /\ Done(p) /\ r.ret = FALSE
            /\ "read_articles" \in r.did
            /\ r.errors \cap Taxonomy = {}
            /\ r.did \cap {"api_call", "open_brief", "write_brief"} = {}
            /\ r.request = None

C10_Witness ==
    \E p \in Procs :
        /\ Done(p) /\ run[p].articles = PyList(<<>>)
        /\ articleFiles[ArticlePath(run[p].load_date.v)].value = PyList(<<>>)

====
